---- MODULE Spec2Model ----
(***************************************************************************)
(* Model of LOCAL/responses-csv/merge_qualtrics_dashboard.py: the run of   *)
(* main() over one Qualtrics survey file and one dashboard log file.       *)
(*                                                                         *)
(* A Python str is a sequence of characters, a character is a one-letter   *)
(* TLA+ string; a CSV file is the sequence of rows csv.reader yields, a    *)
(* row is a sequence of cells.  A dict is a function from its keys to its  *)
(* values (the code never depends on the insertion order of a dict: the    *)
(* writer sorts the union of the keys).  Python's None is the one-element  *)
(* sequence <<"None">>, which is no str because "None" is no character.    *)
(***************************************************************************)
EXTENDS Integers, Sequences, FiniteSets, TLC

(***************************************************************************)
(* Strings                                                                 *)
(***************************************************************************)

\* The characters the inputs use, in ascending code-point order.
Alphabet ==
  << " ", "1", "2", "9", "A", "I", "N", "Q", "R", "T", "_",
     "a", "b", "c", "d", "e", "f", "g", "h", "i", "j", "k", "l", "m",
     "n", "o", "p", "q", "r", "s", "t", "u", "v", "w", "x", "y", "z" >>

\* Position of a character in the code-point order (what str comparison uses).
Code(c) == CHOOSE i \in 1..Len(Alphabet) : Alphabet[i] = c

None == << "None" >>

Whitespace == { " " }

Range(s) == { s[i] : i \in 1..Len(s) }

Min(a, b) == IF a <= b THEN a ELSE b

\* str.strip(): drop leading and trailing whitespace.
RECURSIVE LStrip(_)
LStrip(s) ==
  IF s # << >> /\ Head(s) \in Whitespace THEN LStrip(Tail(s)) ELSE s

RECURSIVE RStrip(_)
RStrip(s) ==
  IF s # << >> /\ s[Len(s)] \in Whitespace
    THEN RStrip(SubSeq(s, 1, Len(s) - 1))
    ELSE s

Strip(s) == RStrip(LStrip(s))

\* str.startswith(p)
StartsWith(s, p) == Len(s) >= Len(p) /\ SubSeq(s, 1, Len(p)) = p

\* a < b for two str: code-point lexicographic order.
StrLess(a, b) ==
  \E i \in 1..(Min(Len(a), Len(b)) + 1) :
    /\ \A j \in 1..(i - 1) : a[j] = b[j]
    /\ \/ i = Len(a) + 1 /\ i <= Len(b)
       \/ i <= Len(a) /\ i <= Len(b) /\ Code(a[i]) < Code(b[i])

\* sorted(S) for a set S of str.
RECURSIVE Sorted(_)
Sorted(S) ==
  IF S = {} THEN << >>
  ELSE LET m == CHOOSE x \in S : \A y \in S \ {x} : StrLess(x, y)
       IN  << m >> \o Sorted(S \ {m})

\* d[k] = v on a dict
DictSet(d, k, v) == [x \in DOMAIN d \cup {k} |-> IF x = k THEN v ELSE d[x]]

EmptyDict == << >>

(***************************************************************************)
(* The literals of the program                                             *)
(***************************************************************************)

ResponseId == << "R", "e", "s", "p", "o", "n", "s", "e", "I", "d" >>

qualtricsResponseId ==
  << "q", "u", "a", "l", "t", "r", "i", "c", "s" >> \o ResponseId

QualtricsPrefix == << "q", "u", "a", "l", "t", "r", "i", "c", "s", "_" >>

MatchStatusKey ==
  << "_", "m", "a", "t", "c", "h", "_", "s", "t", "a", "t", "u", "s" >>

TagMatched == << "m", "a", "t", "c", "h", "e", "d" >>

TagNoId ==
  << "n", "o", "_" >> \o SubSeq(QualtricsPrefix, 1, 9) \o << "_", "i", "d" >>

TagNotFound ==
  QualtricsPrefix \o << "i", "d", "_", "n", "o", "t", "_", "f", "o", "u", "n", "d" >>

userId == << "u", "s", "e", "r", "I", "d" >>

standard_log_keys ==
  << qualtricsResponseId,
     userId,
     << "s", "t", "u", "d", "y", "I", "d" >>,
     << "s", "t", "u", "d", "y", "N", "a", "m", "e" >>,
     << "i", "p", "A", "d", "d", "r", "e", "s", "s" >>,
     << "a", "c", "t", "i", "o", "n" >>,
     << "d", "e", "t", "a", "i", "l", "s" >>,
     << "t", "i", "m", "e", "s", "t", "a", "m", "p" >>,
     << "u", "r", "l" >>,
     << "a", "r", "t", "i", "c", "l", "e", "I", "d" >>,
     << "a", "r", "t", "i", "c", "l", "e", "T", "i", "t", "l", "e" >>,
     << "i", "d" >> >>

(***************************************************************************)
(* The input files                                                         *)
(***************************************************************************)

MaxDataRows == 2
MaxLogRows == 3

SeqsUpTo(S, n) == UNION { [1..k -> S] : k \in 0..n }

Q1 == << "Q", "1" >>
R1 == << "R", "1" >>
R2 == << "R", "2" >>
R9 == << "R", "9" >>
yes == << "y", "e", "s" >>
no == << "n", "o" >>
u1 == << "u", "1" >>
u2 == << "u", "2" >>
note == << "n", "o", "t", "e" >>

\* Header rows of the survey file: the identifier column first, missing,
\* second, and with a column name that occurs twice.
SurveyHeaders ==
  { << ResponseId, Q1 >>, << Q1 >>, << Q1, ResponseId >>,
    << ResponseId, Q1, Q1 >> }

\* Rows 2 and 3 of the survey file look like data, to show they are skipped.
MetaRow == << R2, yes >>

\* Data rows: empty, ragged short, regular, ragged long with an identifier
\* to trim, and a blank first cell.
SurveyDataRows ==
  { << >>, << R1 >>, << R1, yes >>, << << " " >> \o R1 \o << " " >>, no, << "x" >> >>,
    << << " " >>, R2 >> }

\* Every survey file of the bounds, the ones with fewer than three rows too.
RichSurveys ==
  { << >> }
  \cup { << h >> : h \in SurveyHeaders }
  \cup { << h, MetaRow >> : h \in SurveyHeaders }
  \cup { << h, MetaRow, MetaRow >> \o d :
           h \in SurveyHeaders, d \in SeqsUpTo(SurveyDataRows, MaxDataRows) }

FewSurveys ==
  { << << ResponseId, Q1 >>, MetaRow, MetaRow >>,
    << << ResponseId, Q1 >>, MetaRow, MetaRow, << R1, yes >>, << R2 >> >>,
    << << ResponseId, Q1, Q1 >>, MetaRow, MetaRow,
       << R1, yes, no >>, << R1 \o << " " >>, no >> >> }

\* Header rows of the log file: the foreign key second of three, missing (with two
\* other columns and a metadata column), next to a column named like a
\* promoted survey field, next to a column named like the status tag.
LogHeaders ==
  { << userId, qualtricsResponseId, note >>,
    << note, << "_", "a" >>, << "a", "b" >> >>,
    << QualtricsPrefix \o Q1, qualtricsResponseId >>,
    << MatchStatusKey, qualtricsResponseId >> }

\* Log rows: empty line, matching key, key to trim, empty key, unknown key,
\* ragged short, ragged long.
LogRows ==
  { << >>, << u1, R1 >>, << u2, << " " >> \o R1 \o << " " >> >>, << u1, << " " >> >>,
    << u1, R9 >>, << u2 >>, << u1, R2, << "x" >> >> }

RichLogs ==
  { << >> }
  \cup { << h >> \o d : h \in LogHeaders, d \in SeqsUpTo(LogRows, MaxLogRows) }

FewLogs ==
  { << << userId, qualtricsResponseId >>, << u1, R1 >>, << u2, yes >> >> }

(***************************************************************************)
(* State                                                                   *)
(***************************************************************************)

VARIABLES
  pc,                   \* position in main()
  error,                \* the exception that ended the run, or "none"
  exitCode,             \* exit status of the process once the run has ended
  events,               \* files read and written so far, in order
  surveyFile,           \* rows of the Qualtrics CSV
  logFile,              \* rows of the dashboard CSV
  headers,              \* read_qualtrics_csv: headers
  response_id_idx,      \* read_qualtrics_csv: index of ResponseId (from 1)
  row_no,               \* read_qualtrics_csv: rows the reader has consumed
  qualtrics_data,       \* main: ResponseId -> response dict
  dashboard_logs,       \* main: list of log dicts
  log_no,               \* merge_data: log entries processed
  merged,               \* merge_data: merged
  matched_count,        \* merge_data: matched_count
  unmatched_count,      \* merge_data: unmatched_count
  matched_response_ids, \* merge_data: matched_response_ids
  ordered_keys,         \* write_merged_csv: ordered_keys
  outputFile,           \* rows of merged_data.csv, << >> while not written
  summary               \* the statistics print_summary reports

vars ==
  << pc, error, exitCode, events, surveyFile, logFile, headers,
     response_id_idx, row_no, qualtrics_data, dashboard_logs, log_no, merged,
     matched_count, unmatched_count, matched_response_ids, ordered_keys,
     outputFile, summary >>

readerVars == << headers, response_id_idx, row_no, qualtrics_data >>

mergeVars ==
  << log_no, merged, matched_count, unmatched_count, matched_response_ids >>

writeVars == << ordered_keys, outputFile >>

inputVars == << surveyFile, logFile >>

Init ==
  /\ \/ surveyFile \in RichSurveys /\ logFile \in FewLogs
     \/ surveyFile \in FewSurveys /\ logFile \in RichLogs
  /\ pc = "read_qualtrics"
  /\ error = "none"
  /\ exitCode = 0
  /\ events = << >>
  /\ headers = << >>
  /\ response_id_idx = 0
  /\ row_no = 0
  /\ qualtrics_data = EmptyDict
  /\ dashboard_logs = << >>
  /\ log_no = 0
  /\ merged = << >>
  /\ matched_count = 0
  /\ unmatched_count = 0
  /\ matched_response_ids = {}
  /\ ordered_keys = << >>
  /\ outputFile = << >>
  /\ summary = EmptyDict

\* Abort, but the process ends with status 0.
Abort_status_zero(exc) ==
  /\ pc' = "aborted"
  /\ error' = exc
  /\ exitCode' = 0

\* An uncaught exception or sys.exit(1): the interpreter ends with status 1.
Abort(exc) ==
  /\ pc' = "aborted"
  /\ error' = exc
  /\ exitCode' = 1

(***************************************************************************)
(* read_qualtrics_csv                                                      *)
(***************************************************************************)

\* headers.index('ResponseId'), counted from 1; 0 stands for ValueError.
IndexOf(hs, name) ==
  IF name \in Range(hs)
    THEN CHOOSE i \in 1..Len(hs) :
           hs[i] = name /\ \A j \in 1..(i - 1) : hs[j] # name
    ELSE 0

\* Lines 41-53: the header row, the two skipped rows, the identifier column.
ReadQualtricsHeader ==
  /\ pc = "read_qualtrics"
  /\ events' = Append(events, "read_qualtrics")
  /\ IF Len(surveyFile) < 3
       THEN \* next(reader) on an exhausted reader
            /\ Abort("StopIteration")
            /\ headers' = IF surveyFile = << >> THEN << >> ELSE surveyFile[1]
            /\ row_no' = Len(surveyFile)
            /\ UNCHANGED response_id_idx
       ELSE /\ headers' = surveyFile[1]
            /\ row_no' = 3
            /\ response_id_idx' = IndexOf(surveyFile[1], ResponseId)
            /\ IF IndexOf(surveyFile[1], ResponseId) = 0
                 THEN Abort("SystemExit")
                 ELSE /\ pc' = "qualtrics_rows"
                      /\ UNCHANGED << error, exitCode >>
  /\ UNCHANGED << inputVars, qualtrics_data, dashboard_logs, mergeVars,
                  writeVars, summary >>

\* Line 57 and lines 60-62: the rows the loop skips.
SkipRow(row, idx) ==
  \/ row = << >>
  \/ Len(row) < idx
  \/ Strip(row[idx]) = << >>

\* Lines 65-70: the dict of one data row, filled header by header.
RECURSIVE FillResponse(_, _, _, _)
FillResponse(hs, row, i, d) ==
  IF i > Len(hs) THEN d
  ELSE FillResponse(hs, row, i + 1,
         DictSet(d, hs[i], IF i <= Len(row) THEN row[i] ELSE << >>))

\* response_dict, but the columns a short row lacks are left out.
response_dict_no_padding(hs, row) ==
  FillResponse(SubSeq(hs, 1, Min(Len(hs), Len(row))), row, 1, EmptyDict)

response_dict(hs, row) == FillResponse(hs, row, 1, EmptyDict)

\* read_row, but a response already in the mapping is kept.
read_row_first_wins(data, hs, idx, row) ==
  IF SkipRow(row, idx) \/ Strip(row[idx]) \in DOMAIN data
    THEN data
    ELSE DictSet(data, Strip(row[idx]), response_dict(hs, row))

\* Lines 57-72: the body of the loop over the data rows, on the mapping.
read_row(data, hs, idx, row) ==
  IF SkipRow(row, idx)
    THEN data
    ELSE DictSet(data, Strip(row[idx]), response_dict(hs, row))

\* Lines 56-72: one iteration of the loop over the data rows.
ReadQualtricsRow ==
  /\ pc = "qualtrics_rows"
  /\ row_no < Len(surveyFile)
  /\ row_no' = row_no + 1
  /\ qualtrics_data' =
       read_row(qualtrics_data, headers, response_id_idx, surveyFile[row_no + 1])
  /\ UNCHANGED << pc, error, exitCode, events, inputVars, headers,
                  response_id_idx, dashboard_logs, mergeVars, writeVars,
                  summary >>

\* Line 74: the reader is exhausted, the mapping is returned to main.
ReadQualtricsReturn ==
  /\ pc = "qualtrics_rows"
  /\ row_no = Len(surveyFile)
  /\ pc' = "read_dashboard"
  /\ UNCHANGED << error, exitCode, events, inputVars, readerVars,
                  dashboard_logs, mergeVars, writeVars, summary >>

(***************************************************************************)
(* read_dashboard_csv                                                      *)
(***************************************************************************)

\* csv.DictReader: the dict of one row under the field names.  A cell the
\* row lacks is None (restval); the cells beyond the field names are kept
\* as a list under the key None (restkey).
RECURSIVE ZipRow(_, _, _, _)
ZipRow(fieldnames, row, i, d) ==
  IF i > Len(fieldnames) THEN d
  ELSE ZipRow(fieldnames, row, i + 1,
         DictSet(d, fieldnames[i], IF i <= Len(row) THEN row[i] ELSE None))

RowDict(fieldnames, row) ==
  LET d == ZipRow(fieldnames, row, 1, EmptyDict) IN
    IF Len(fieldnames) < Len(row)
      THEN DictSet(d, None, SubSeq(row, Len(fieldnames) + 1, Len(row)))
      ELSE d

\* csv.DictReader: one dict per row after the first, empty rows skipped.
RECURSIVE DictRows(_, _, _)
DictRows(fieldnames, rows, i) ==
  IF i > Len(rows) THEN << >>
  ELSE (IF rows[i] = << >> THEN << >> ELSE << RowDict(fieldnames, rows[i]) >>)
       \o DictRows(fieldnames, rows, i + 1)

read_dashboard_csv(file) ==
  IF file = << >> THEN << >> ELSE DictRows(file[1], Tail(file), 1)

\* Line 266.
ReadDashboard ==
  /\ pc = "read_dashboard"
  /\ dashboard_logs' = read_dashboard_csv(logFile)
  /\ events' = Append(events, "read_dashboard")
  /\ pc' = "merge"
  /\ UNCHANGED << error, exitCode, inputVars, readerVars, mergeVars,
                  writeVars, summary >>

(***************************************************************************)
(* merge_data                                                              *)
(***************************************************************************)

\* log.get('qualtricsResponseId', '')
ForeignKey(log) ==
  IF qualtricsResponseId \in DOMAIN log THEN log[qualtricsResponseId] ELSE << >>

\* Promote, but the identifier column of the survey is left out.
Promote_skip_id(log, response) ==
  LET promoted == { QualtricsPrefix \o h : h \in DOMAIN response \ {ResponseId} } IN
    [k \in DOMAIN log \cup promoted |->
       IF k \in promoted
         THEN response[CHOOSE h \in DOMAIN response : QualtricsPrefix \o h = k]
         ELSE log[k]]

\* Lines 131-135: the copy of the log entry with every survey field added
\* under the prefixed key.
Promote(log, response) ==
  LET promoted == { QualtricsPrefix \o h : h \in DOMAIN response } IN
    [k \in DOMAIN log \cup promoted |->
       IF k \in promoted
         THEN response[CHOOSE h \in DOMAIN response : QualtricsPrefix \o h = k]
         ELSE log[k]]

\* merge_iteration, but a log entry without identifier is counted and not
\* appended.
merge_iteration_drop(acc, log, data) ==
  LET response_id == Strip(ForeignKey(log)) IN
    IF response_id = << >>
      THEN [acc EXCEPT !.unmatched_count = @ + 1]
      ELSE IF response_id \in DOMAIN data
        THEN [acc EXCEPT
                !.merged =
                  Append(@, DictSet(Promote(log, data[response_id]),
                                    MatchStatusKey, TagMatched)),
                !.matched_count = @ + 1,
                !.matched_response_ids = @ \cup {response_id}]
        ELSE [acc EXCEPT
                !.merged = Append(@, DictSet(log, MatchStatusKey, TagNotFound)),
                !.unmatched_count = @ + 1]

\* merge_iteration, but the foreign key is looked up without .strip().
merge_iteration_no_strip(acc, log, data) ==
  LET response_id == ForeignKey(log) IN
    IF response_id = << >>
      THEN [acc EXCEPT
              !.merged = Append(@, DictSet(log, MatchStatusKey, TagNoId)),
              !.unmatched_count = @ + 1]
      ELSE IF response_id \in DOMAIN data
        THEN [acc EXCEPT
                !.merged =
                  Append(@, DictSet(Promote(log, data[response_id]),
                                    MatchStatusKey, TagMatched)),
                !.matched_count = @ + 1,
                !.matched_response_ids = @ \cup {response_id}]
        ELSE [acc EXCEPT
                !.merged = Append(@, DictSet(log, MatchStatusKey, TagNotFound)),
                !.unmatched_count = @ + 1]

\* merge_iteration, but a match is not recorded in the identifier set.
merge_iteration_no_add(acc, log, data) ==
  LET response_id == Strip(ForeignKey(log)) IN
    IF response_id = << >>
      THEN [acc EXCEPT
              !.merged = Append(@, DictSet(log, MatchStatusKey, TagNoId)),
              !.unmatched_count = @ + 1]
      ELSE IF response_id \in DOMAIN data
        THEN [acc EXCEPT
                !.merged =
                  Append(@, DictSet(Promote(log, data[response_id]),
                                    MatchStatusKey, TagMatched)),
                !.matched_count = @ + 1]
        ELSE [acc EXCEPT
                !.merged = Append(@, DictSet(log, MatchStatusKey, TagNotFound)),
                !.unmatched_count = @ + 1]

\* Lines 118-146: the body of the loop over the log entries, on the four
\* accumulators, for a log entry whose foreign key is a str.
merge_iteration(acc, log, data) ==
  LET response_id == Strip(ForeignKey(log)) IN
    IF response_id = << >>
      THEN [acc EXCEPT
              !.merged = Append(@, DictSet(log, MatchStatusKey, TagNoId)),
              !.unmatched_count = @ + 1]
      ELSE IF response_id \in DOMAIN data
        THEN [acc EXCEPT
                !.merged =
                  Append(@, DictSet(Promote(log, data[response_id]),
                                    MatchStatusKey, TagMatched)),
                !.matched_count = @ + 1,
                !.matched_response_ids = @ \cup {response_id}]
        ELSE [acc EXCEPT
                !.merged = Append(@, DictSet(log, MatchStatusKey, TagNotFound)),
                !.unmatched_count = @ + 1]

\* Lines 115-146: one iteration of the loop over the log entries.
MergeStep ==
  /\ pc = "merge"
  /\ log_no < Len(dashboard_logs)
  /\ LET log == dashboard_logs[log_no + 1] IN
       IF ForeignKey(log) = None
         THEN \* None has no attribute 'strip' (line 116)
              /\ Abort("AttributeError")
              /\ UNCHANGED mergeVars
         ELSE LET acc ==
                    merge_iteration(
                      [ merged |-> merged,
                        matched_count |-> matched_count,
                        unmatched_count |-> unmatched_count,
                        matched_response_ids |-> matched_response_ids ],
                      log, qualtrics_data)
              IN  /\ log_no' = log_no + 1
                  /\ merged' = acc.merged
                  /\ matched_count' = acc.matched_count
                  /\ unmatched_count' = acc.unmatched_count
                  /\ matched_response_ids' = acc.matched_response_ids
                  /\ UNCHANGED << pc, error, exitCode >>
  /\ UNCHANGED << events, inputVars, readerVars, dashboard_logs, writeVars,
                  summary >>

\* Line 148.
MergeReturn ==
  /\ pc = "merge"
  /\ log_no = Len(dashboard_logs)
  /\ pc' = "write"
  /\ UNCHANGED << error, exitCode, events, inputVars, readerVars,
                  dashboard_logs, mergeVars, writeVars, summary >>

(***************************************************************************)
(* write_merged_csv                                                        *)
(***************************************************************************)

\* Lines 164-166.
AllKeys(records) == UNION { DOMAIN records[i] : i \in 1..Len(records) }

SelectSeq2(s, S) == SelectSeq(s, LAMBDA k : k \in S)

\* Lines 178-181.
StandardKeys(all_keys) == SelectSeq2(standard_log_keys, all_keys)

\* Line 184.
QualtricsKeys(all_keys) ==
  Sorted({ k \in all_keys :
             StartsWith(k, QualtricsPrefix) /\ k \notin Range(StandardKeys(all_keys)) })

\* OtherKeys, but the metadata keys are not filtered out.
OtherKeys_keep_metadata(all_keys) ==
  Sorted({ k \in all_keys :
             /\ k \notin Range(StandardKeys(all_keys))
             /\ k \notin Range(QualtricsKeys(all_keys)) })

\* Line 189.
OtherKeys(all_keys) ==
  Sorted({ k \in all_keys :
             /\ k \notin Range(StandardKeys(all_keys))
             /\ k \notin Range(QualtricsKeys(all_keys))
             /\ ~StartsWith(k, << "_" >>) })

\* Line 194.
MetadataKeys(all_keys) == Sorted({ k \in all_keys : StartsWith(k, << "_" >>) })

\* Lines 174-195.
OrderedKeys(all_keys) ==
  StandardKeys(all_keys) \o QualtricsKeys(all_keys)
    \o OtherKeys(all_keys) \o MetadataKeys(all_keys)

\* csv.DictWriter.writerow: the cells of one record under the field names;
\* a missing key and None are both written as the empty string.
CsvRow(fieldnames, record) ==
  [i \in 1..Len(fieldnames) |->
     IF fieldnames[i] \in DOMAIN record /\ record[fieldnames[i]] # None
       THEN record[fieldnames[i]]
       ELSE << >>]

\* Lines 275-276.
WriteMergedCsv ==
  /\ pc = "write"
  /\ IF merged = << >>
       THEN \* "No data to write!"
            /\ events' = Append(events, "no_data")
            /\ pc' = "summary"
            /\ UNCHANGED << error, exitCode, writeVars >>
       ELSE IF None \in AllKeys(merged)
         THEN \* None has no attribute 'startswith' (line 184)
              /\ Abort("AttributeError")
              /\ UNCHANGED << events, writeVars >>
         ELSE /\ ordered_keys' = OrderedKeys(AllKeys(merged))
              /\ outputFile' =
                   << OrderedKeys(AllKeys(merged)) >>
                     \o [i \in 1..Len(merged) |->
                           CsvRow(OrderedKeys(AllKeys(merged)), merged[i])]
              /\ events' = Append(events, "write_output")
              /\ pc' = "summary"
              /\ UNCHANGED << error, exitCode >>
  /\ UNCHANGED << inputVars, readerVars, dashboard_logs, mergeVars, summary >>

(***************************************************************************)
(* print_summary                                                           *)
(***************************************************************************)

\* Line 237.
LogsWithoutId(logs) ==
  Cardinality({ i \in 1..Len(logs) : Strip(ForeignKey(logs[i])) = << >> })

\* Lines 279-282.
PrintSummary ==
  /\ pc = "summary"
  /\ summary' =
       [ responses_loaded |-> Cardinality(DOMAIN qualtrics_data),
         logs_loaded |-> Len(dashboard_logs),
         matched_count |-> matched_count,
         unmatched_count |-> unmatched_count,
         unique_matched |-> Cardinality(matched_response_ids),
         unmatched_qualtrics |-> DOMAIN qualtrics_data \ matched_response_ids,
         logs_without_id |-> LogsWithoutId(dashboard_logs) ]
  /\ events' = Append(events, "summary")
  /\ pc' = "done"
  /\ UNCHANGED << error, exitCode, inputVars, readerVars, dashboard_logs,
                  mergeVars, writeVars >>

(***************************************************************************)
(* main                                                                    *)
(***************************************************************************)

Next ==
  \/ ReadQualtricsHeader
  \/ ReadQualtricsRow
  \/ ReadQualtricsReturn
  \/ ReadDashboard
  \/ MergeStep
  \/ MergeReturn
  \/ WriteMergedCsv
  \/ PrintSummary

Spec == Init /\ [][Next]_vars

TypeOK ==
  /\ pc \in { "read_qualtrics", "qualtrics_rows", "read_dashboard", "merge",
              "write", "summary", "done", "aborted" }
  /\ error \in { "none", "StopIteration", "SystemExit", "AttributeError" }
  /\ exitCode \in { 0, 1 }

(***************************************************************************)
(* Properties of merge_data                                                *)
(***************************************************************************)

\* The trimmed foreign key of a log entry, the empty str when it has none.
TrimmedKey(log) == Strip(ForeignKey(log))

Tag(m) == m[MatchStatusKey]

\* m keeps every field of log that no promoted field or tag can shadow.
BuiltFrom(m, log) ==
  /\ DOMAIN log \subseteq DOMAIN m
  /\ \A k \in DOMAIN log :
       ~StartsWith(k, QualtricsPrefix) /\ k # MatchStatusKey => m[k] = log[k]

\* C1: merge_data yields one merged record per log record, in the same
\* order: after any number of iterations the merged list is as long as the
\* number of log records processed and its i-th record is built from the
\* i-th log record, and on return it is as long as the list of log records.
C1_OneRecordPerLog ==
  /\ Len(merged) = log_no
  /\ \A i \in 1..Len(merged) : BuiltFrom(merged[i], dashboard_logs[i])
  /\ pc \in { "write", "summary", "done" } => Len(merged) = Len(dashboard_logs)

C1_Witness ==
  /\ pc = "write"
  /\ Len(merged) = 3
  /\ userId \in DOMAIN merged[1] \cap DOMAIN merged[2]
  /\ merged[1][userId] # merged[2][userId]
  /\ Tag(merged[1]) = TagNoId
  /\ Tag(merged[3]) = TagMatched

TagNoIdentifier ==
  << "n", "o", "_", "i", "d", "e", "n", "t", "i", "f", "i", "e", "r" >>

TagIdentifierNotFound ==
  << "i", "d", "e", "n", "t", "i", "f", "i", "e", "r", "_",
     "n", "o", "t", "_", "f", "o", "u", "n", "d" >>

\* The tag of every merged record is one of the three given and agrees with
\* the trimmed foreign key of its log record.
TagsConsistent(matched, noId, notFound) ==
  \A i \in 1..Len(merged) :
    LET m == merged[i]
        fk == TrimmedKey(dashboard_logs[i])
    IN  /\ MatchStatusKey \in DOMAIN m
        /\ Tag(m) \in { matched, noId, notFound }
        /\ Tag(m) = noId <=> fk = << >>
        /\ Tag(m) = matched <=> (fk # << >> /\ fk \in DOMAIN qualtrics_data)
        /\ Tag(m) = notFound <=> (fk # << >> /\ fk \notin DOMAIN qualtrics_data)

\* C2 as stated: every merged record carries a tag among matched,
\* no_identifier, identifier_not_found, consistent with its foreign key.
C2_SpecTags == TagsConsistent(TagMatched, TagNoIdentifier, TagIdentifierNotFound)

\* C2 (amended): every merged record carries in _match_status exactly one of
\* matched, no_qualtrics_id, qualtrics_id_not_found: no_qualtrics_id iff the
\* foreign key is missing or empty after trimming, matched iff the trimmed
\* key is non-empty and a key of the survey index, qualtrics_id_not_found
\* iff it is non-empty and not a key of the survey index.
C2_CodeTags == TagsConsistent(TagMatched, TagNoId, TagNotFound)

C2_Witness ==
  /\ Len(merged) = 3
  /\ { Tag(merged[i]) : i \in 1..3 } = { TagMatched, TagNoId, TagNotFound }
  /\ \E i \in 1..3 :
       /\ Tag(merged[i]) = TagMatched
       /\ ForeignKey(dashboard_logs[i]) # TrimmedKey(dashboard_logs[i])

\* C3: a record tagged matched holds every field k = v of the survey
\* response of its trimmed foreign key as qualtrics_k = v; any other record
\* has the keys of its log record and _match_status, nothing else.
C3_SurveyFieldsPromoted ==
  \A i \in 1..Len(merged) :
    LET m == merged[i]
        log == dashboard_logs[i]
    IN  IF Tag(m) = TagMatched
          THEN \A h \in DOMAIN qualtrics_data[TrimmedKey(log)] :
                 /\ QualtricsPrefix \o h \in DOMAIN m
                 /\ m[QualtricsPrefix \o h] = qualtrics_data[TrimmedKey(log)][h]
          ELSE DOMAIN m = DOMAIN log \cup { MatchStatusKey }

C3_Witness ==
  /\ pc = "done"
  /\ \E i, j \in 1..Len(merged) :
       /\ Tag(merged[i]) = TagMatched
       /\ merged[i][QualtricsPrefix \o Q1] = yes
       /\ merged[i][QualtricsPrefix \o ResponseId] = R1
       /\ Tag(merged[j]) = TagNotFound

\* C4: every field of the log record is in its merged record with its
\* original value.
C4_LogFieldsKept ==
  \A i \in 1..Len(merged) :
    \A k \in DOMAIN dashboard_logs[i] :
      k \in DOMAIN merged[i] /\ merged[i][k] = dashboard_logs[i][k]

(***************************************************************************)
(* Properties of write_merged_csv                                          *)
(***************************************************************************)

\* s lists the elements of S once each, in ascending order.
IsSortedListOf(s, S) ==
  /\ Range(s) = S
  /\ Len(s) = Cardinality(S)
  /\ \A i, j \in 1..Len(s) : i < j => StrLess(s[i], s[j])

\* C5: the column list is the priority names that are keys, then the
\* qualtrics_ keys sorted, then the remaining keys not starting with _
\* sorted, then the keys starting with _ sorted; every key of the union is
\* in it once and nothing else is.
C5_ColumnOrder ==
  "write_output" \in Range(events) =>
    LET U == UNION { DOMAIN merged[i] : i \in 1..Len(merged) }
        g1 == SelectSeq(standard_log_keys, LAMBDA k : k \in U)
        S2 == { k \in U : StartsWith(k, QualtricsPrefix) }
        S3 == { k \in U : k \notin Range(g1) /\ k \notin S2 /\ ~StartsWith(k, << "_" >>) }
        S4 == { k \in U : StartsWith(k, << "_" >>) }
        n1 == Len(g1)
        n2 == n1 + Cardinality(S2)
        n3 == n2 + Cardinality(S3)
        n4 == n3 + Cardinality(S4)
    IN  /\ Len(ordered_keys) = n4
        /\ SubSeq(ordered_keys, 1, n1) = g1
        /\ IsSortedListOf(SubSeq(ordered_keys, n1 + 1, n2), S2)
        /\ IsSortedListOf(SubSeq(ordered_keys, n2 + 1, n3), S3)
        /\ IsSortedListOf(SubSeq(ordered_keys, n3 + 1, n4), S4)
        /\ Range(ordered_keys) = U
        /\ Len(ordered_keys) = Cardinality(U)
        /\ outputFile[1] = ordered_keys

C5_Witness ==
  /\ "write_output" \in Range(events)
  /\ ordered_keys =
       << qualtricsResponseId, userId, QualtricsPrefix \o Q1,
          QualtricsPrefix \o ResponseId, note, MatchStatusKey >>

(***************************************************************************)
(* Properties of the run and of read_qualtrics_csv                         *)
(***************************************************************************)

HasIdColumn == surveyFile # << >> /\ ResponseId \in Range(surveyFile[1])

\* C6: when the survey file has the ResponseId column the run never aborts,
\* whatever the rows of the two files are, and a log record without the
\* foreign-key field is tagged as having no identifier.
C6_DataAnomaliesNeverAbort ==
  HasIdColumn =>
    /\ pc # "aborted"
    /\ \A i \in 1..Len(merged) :
         qualtricsResponseId \notin DOMAIN dashboard_logs[i]
           => Tag(merged[i]) = TagNoId

\* C7: when the header row of the survey file has no ResponseId column, the
\* run is aborted with a nonzero exit status by read_qualtrics_csv, no
\* mapping is returned, and the survey file is all that was read: the log
\* file is not read, nothing is merged, no output file is written.
C7_MissingColumnAborts ==
  (surveyFile # << >> /\ ResponseId \notin Range(surveyFile[1])
     /\ pc # "read_qualtrics") =>
    /\ pc = "aborted"
    /\ exitCode # 0
    /\ qualtrics_data = EmptyDict
    /\ events = << "read_qualtrics" >>
    /\ dashboard_logs = << >>
    /\ merged = << >>
    /\ outputFile = << >>

C7_Witness ==
  /\ pc = "aborted"
  /\ error = "SystemExit"
  /\ Len(surveyFile) = 5
  /\ surveyFile[1] = << Q1 >>
  /\ surveyFile[5] = << R1, yes >>

\* The rows 4 onward that the reader keeps.
Retained(row, idx) ==
  row # << >> /\ Len(row) >= idx /\ Strip(row[idx]) # << >>

\* The cell of row under the last column of the header named h, the empty
\* str when the row is too short.
CellFor(hs, row, h) ==
  LET i == CHOOSE i \in 1..Len(hs) :
             hs[i] = h /\ \A j \in (i + 1)..Len(hs) : hs[j] # h
  IN  IF i <= Len(row) THEN row[i] ELSE << >>

\* The retained rows among the data rows read so far.
RetainedRows ==
  { j \in 4..row_no : Retained(surveyFile[j], response_id_idx) }

RowId(j) == Strip(surveyFile[j][response_id_idx])

\* C8: the index has one entry per distinct trimmed identifier of the
\* retained rows, the entry of an identifier has the field values of the
\* last retained row with that identifier, and read_qualtrics_csv raises no
\* error on the way.
C8_LastWriteWins ==
  response_id_idx > 0 =>
    /\ DOMAIN qualtrics_data = { RowId(j) : j \in RetainedRows }
    /\ Cardinality(DOMAIN qualtrics_data)
         = Cardinality({ RowId(j) : j \in RetainedRows })
    /\ \A id \in DOMAIN qualtrics_data :
         LET last == CHOOSE j \in RetainedRows :
                       RowId(j) = id
                       /\ \A k \in RetainedRows : RowId(k) = id => k <= j
         IN  /\ DOMAIN qualtrics_data[id] = Range(headers)
             /\ \A h \in Range(headers) :
                  qualtrics_data[id][h] = CellFor(headers, surveyFile[last], h)
    /\ pc = "aborted" => "read_dashboard" \in Range(events)

C8_Witness ==
  /\ pc = "read_dashboard"
  /\ surveyFile =
       << << ResponseId, Q1 >>, MetaRow, MetaRow, << R1, yes >>,
          << << " " >> \o R1 \o << " " >>, no, << "x" >> >> >>
  /\ DOMAIN qualtrics_data = { R1 }
  /\ qualtrics_data[R1][Q1] = no
  /\ qualtrics_data[R1][ResponseId] = << " " >> \o R1 \o << " " >>

\* C9 as stated: rows 2 and 3 are discarded, a later row is retained iff it
\* is non-empty, reaches the identifier column and has a non-blank
\* identifier, and a retained row yields a response whose keys are the
\* header names and whose value for the i-th column is the i-th cell, the
\* empty str when the row has none.
C9_ByPosition ==
  [][ /\ (pc = "read_qualtrics" /\ pc' = "qualtrics_rows")
        => (row_no' = 3 /\ qualtrics_data' = EmptyDict)
      /\ (pc = "qualtrics_rows" /\ row_no' = row_no + 1)
        => LET row == surveyFile[row_no + 1] IN
             IF Retained(row, response_id_idx)
               THEN LET id == Strip(row[response_id_idx]) IN
                    /\ DOMAIN qualtrics_data' = DOMAIN qualtrics_data \cup {id}
                    /\ \A x \in DOMAIN qualtrics_data \ {id} :
                         qualtrics_data'[x] = qualtrics_data[x]
                    /\ DOMAIN qualtrics_data'[id] = Range(headers)
                    /\ \A i \in 1..Len(headers) :
                         qualtrics_data'[id][headers[i]]
                           = IF i <= Len(row) THEN row[i] ELSE << >>
               ELSE qualtrics_data' = qualtrics_data ]_vars

\* C9 (amended): as stated, but the value for a header name is the cell
\* under the last column of that name, the empty str when the row has none
\* there.
C9_ByLastColumn ==
  [][ /\ (pc = "read_qualtrics" /\ pc' = "qualtrics_rows")
        => (row_no' = 3 /\ qualtrics_data' = EmptyDict)
      /\ (pc = "qualtrics_rows" /\ row_no' = row_no + 1)
        => LET row == surveyFile[row_no + 1] IN
             IF Retained(row, response_id_idx)
               THEN LET id == Strip(row[response_id_idx]) IN
                    /\ DOMAIN qualtrics_data' = DOMAIN qualtrics_data \cup {id}
                    /\ \A x \in DOMAIN qualtrics_data \ {id} :
                         qualtrics_data'[x] = qualtrics_data[x]
                    /\ DOMAIN qualtrics_data'[id] = Range(headers)
                    /\ \A h \in Range(headers) :
                         qualtrics_data'[id][h] = CellFor(headers, row, h)
               ELSE qualtrics_data' = qualtrics_data ]_vars

C9_Witness ==
  /\ pc = "qualtrics_rows"
  /\ row_no = 5
  /\ headers = << ResponseId, Q1, Q1 >>
  /\ surveyFile[4] = << << " " >>, R2 >>
  /\ surveyFile[5] = << R1, yes >>
  /\ DOMAIN qualtrics_data = { R1 }
  /\ qualtrics_data[R1][Q1] = << >>

(***************************************************************************)
(* Properties of the statistics                                            *)
(***************************************************************************)

MatchedRecords == { i \in 1..Len(merged) : Tag(merged[i]) = TagMatched }

\* C10: after any number of iterations the two counters add up to the
\* number of log records processed, matched_count counts the records tagged
\* matched, the identifier set is the set of trimmed foreign keys of those
\* records and lies within the keys of the survey index, so it is no larger
\* than matched_count and empty exactly when matched_count is 0; the
\* summary's never-matched identifiers are the keys of the survey index
\* that are the trimmed foreign key of no log record.
C10_StatisticsConsistent ==
  /\ matched_count + unmatched_count = log_no
  /\ matched_count = Cardinality(MatchedRecords)
  /\ matched_response_ids \subseteq DOMAIN qualtrics_data
  /\ matched_response_ids
       = { TrimmedKey(dashboard_logs[i]) : i \in MatchedRecords }
  /\ Cardinality(matched_response_ids) <= matched_count
  /\ Cardinality(matched_response_ids) = 0 <=> matched_count = 0
  /\ pc = "done" =>
       /\ summary.unmatched_qualtrics
            = { id \in DOMAIN qualtrics_data :
                  \A i \in 1..Len(dashboard_logs) :
                    TrimmedKey(dashboard_logs[i]) # id }
       /\ summary.matched_count + summary.unmatched_count = summary.logs_loaded
       /\ summary.unique_matched = Cardinality(matched_response_ids)

C10_Witness ==
  /\ pc = "done"
  /\ matched_count = 2
  /\ unmatched_count = 1
  /\ matched_response_ids = { R1 }
  /\ summary.unmatched_qualtrics = { R2 }

====
